---- MODULE Spec2Model ----
(***************************************************************************)
(* Model of scripts/merge.py: the AdGuard Home rule merger.                *)
(*                                                                         *)
(* Text is modelled as TLA+ strings handled character by character        *)
(* (Head / Tail / SubSeq / \o), so the regular expressions, str.strip,     *)
(* str.lower, str.split, str.endswith and sorted() are computed the way    *)
(* the Python code computes them.                                          *)
(***************************************************************************)
EXTENDS Integers, Sequences, FiniteSets, TLC

(***************************************************************************)
(* Bounds of the model                                                     *)
(***************************************************************************)
MaxLines == 3        \* longest list handed to normalize_and_dedupe (SpecNorm)
MaxSources == 2      \* most URLs in sources.txt (Spec)
MaxClock == 2        \* last clock tick (two ticks make one second)

(***************************************************************************)
(* Configuration (merge.py:19-32)                                          *)
(***************************************************************************)
KEEP_IDNA == TRUE
ENABLE_PARENT_COLLAPSE == TRUE
COMMON_MULTI_PSL ==
    { "co.uk", "ac.uk", "gov.uk", "sch.uk",
      "com.au", "net.au", "org.au", "edu.au", "gov.au",
      "co.jp", "ne.jp", "or.jp", "ed.jp", "go.jp", "gr.jp",
      "com.br", "net.br", "org.br", "gov.br",
      "com.cn", "net.cn", "org.cn", "gov.cn", "edu.cn" }

(***************************************************************************)
(* Characters and the str methods the code uses                           *)
(***************************************************************************)
Lowercase == "abcdefghijklmnopqrstuvwxyz"
Uppercase == "ABCDEFGHIJKLMNOPQRSTUVWXYZ"
DigitChars == "0123456789"
\* the printable ASCII characters in code-point order: 32 (space) to 95 (_),
\* and 97 (a) to 126 (~)
AsciiLow == " !\"#$%&'()*+,-./0123456789:;<=>?@ABCDEFGHIJKLMNOPQRSTUVWXYZ[\\]^_"
AsciiHigh == "abcdefghijklmnopqrstuvwxyz{|}~"

\* 1-based position of character c in s, 0 when absent
IndexOf(c, s) ==
    LET at == { i \in 1..Len(s) : SubSeq(s, i, i) = c }
    IN IF at = {} THEN 0 ELSE CHOOSE i \in at : \A j \in at : i <= j

CharsOf(s) == { SubSeq(s, i, i) : i \in 1..Len(s) }
LetterSet == CharsOf(Lowercase) \cup CharsOf(Uppercase)
DomCharSet == LetterSet \cup CharsOf(DigitChars) \cup {".", "_", "-"}

\* ord(c), as a table over the characters above and the tab
CodeTable ==
    [c \in CharsOf(AsciiLow) \cup CharsOf(AsciiHigh) \cup {"\t"} |->
        IF c = "\t" THEN 9
        ELSE IF IndexOf(c, AsciiLow) > 0 THEN 31 + IndexOf(c, AsciiLow)
        ELSE 96 + IndexOf(c, AsciiHigh)]
CharCode(c) == CodeTable[c]

\* str.lower() of one character
LowerTable ==
    [c \in DOMAIN CodeTable |->
        IF IndexOf(c, Uppercase) > 0
        THEN SubSeq(Lowercase, IndexOf(c, Uppercase), IndexOf(c, Uppercase)) ELSE c]

IsLetter(c) == c \in LetterSet
\* the class [A-Za-z0-9._-]
IsDomChar(c) == c \in DomCharSet
\* \s
IsSpace(c) == c \in {" ", "\t"}
IsDot(c) == c = "."

StartsWith(s, p) == Len(s) >= Len(p) /\ SubSeq(s, 1, Len(p)) = p
EndsWith(s, p) == Len(s) >= Len(p) /\ SubSeq(s, Len(s) - Len(p) + 1, Len(s)) = p
Drop(s, n) == SubSeq(s, n + 1, Len(s))
LastChar(s) == SubSeq(s, Len(s), Len(s))

RECURSIVE Contains(_, _)
\* c in s
Contains(s, c) == s # "" /\ (Head(s) = c \/ Contains(Tail(s), c))

RECURSIVE SpanSpace(_)
\* length of the longest prefix of whitespace
SpanSpace(s) == IF s = "" \/ ~IsSpace(Head(s)) THEN 0 ELSE 1 + SpanSpace(Tail(s))

RECURSIVE SpanDom(_)
\* length of the longest prefix of [A-Za-z0-9._-]
SpanDom(s) == IF s = "" \/ ~IsDomChar(Head(s)) THEN 0 ELSE 1 + SpanDom(Tail(s))

RECURSIVE SpanNotDot(_)
\* length of the longest prefix without a dot
SpanNotDot(s) == IF s = "" \/ IsDot(Head(s)) THEN 0 ELSE 1 + SpanNotDot(Tail(s))

RECURSIVE TrailLetters(_)
\* length of the longest suffix of [A-Za-z]
TrailLetters(s) ==
    IF s = "" \/ ~IsLetter(LastChar(s)) THEN 0
    ELSE 1 + TrailLetters(SubSeq(s, 1, Len(s) - 1))

RECURSIVE RStripSpace(_)
RStripSpace(s) ==
    IF s = "" \/ ~IsSpace(LastChar(s)) THEN s ELSE RStripSpace(SubSeq(s, 1, Len(s) - 1))

\* str.strip()
Strip(s) == RStripSpace(Drop(s, SpanSpace(s)))

RECURSIVE LStripDots(_)
LStripDots(s) == IF s = "" \/ ~IsDot(Head(s)) THEN s ELSE LStripDots(Tail(s))

RECURSIVE RStripDots(_)
RStripDots(s) ==
    IF s = "" \/ ~IsDot(LastChar(s)) THEN s ELSE RStripDots(SubSeq(s, 1, Len(s) - 1))

\* str.strip(".")
StripDots(s) == RStripDots(LStripDots(s))

RECURSIVE Lower(_)
\* str.lower()
Lower(s) == IF s = "" THEN "" ELSE LowerTable[Head(s)] \o Lower(Tail(s))

RECURSIVE StrLess(_, _)
\* a < b for Python str: lexicographic by code point
StrLess(a, b) ==
    IF b = "" THEN FALSE
    ELSE IF a = "" THEN TRUE
    ELSE IF Head(a) = Head(b) THEN StrLess(Tail(a), Tail(b))
    ELSE CharCode(Head(a)) < CharCode(Head(b))

RECURSIVE SplitDot(_)
\* str.split(".")
SplitDot(s) ==
    LET n == SpanNotDot(s)
    IN IF n = Len(s) THEN <<s>> ELSE <<SubSeq(s, 1, n)>> \o SplitDot(Drop(s, n + 1))

RECURSIVE JoinDot(_)
\* ".".join(labels)
JoinDot(labs) ==
    IF Len(labs) = 0 THEN ""
    ELSE IF Len(labs) = 1 THEN labs[1]
    ELSE labs[1] \o "." \o JoinDot(Tail(labs))

RECURSIVE sorted(_)
\* sorted(S) of a set of str, as a list
sorted(S) ==
    IF S = {} THEN <<>>
    ELSE LET m == CHOOSE x \in S : \A y \in S \ {x} : StrLess(x, y)
         IN <<m>> \o sorted(S \ {m})

Range(f) == { f[i] : i \in DOMAIN f }

(***************************************************************************)
(* Regular expressions (merge.py:37-43).  Each returns whether the line    *)
(* matches and the groups it captures.                                     *)
(***************************************************************************)
NoMatch == [ok |-> FALSE, dom |-> "", val |-> ""]

\* [A-Za-z0-9._-]+\.[A-Za-z]{2,} matched against a whole token of [A-Za-z0-9._-]
IsDomainToken(t) ==
    LET k == TrailLetters(t)
    IN /\ k >= 2
       /\ Len(t) >= k + 2
       /\ SubSeq(t, Len(t) - k, Len(t) - k) = "."

\* ^\s*$
R_BLANK(s) == SpanSpace(s) = Len(s)

\* ^\s*(?:!|#)(?!@#)
R_COMMENT(s) ==
    LET r == Drop(s, SpanSpace(s))
    IN (StartsWith(r, "!") \/ StartsWith(r, "#")) /\ ~StartsWith(Drop(r, 1), "@#")

\* ^\s*(?:##|#@#)
R_COSMETIC(s) ==
    LET r == Drop(s, SpanSpace(s))
    IN StartsWith(r, "##") \/ StartsWith(r, "#@#")

\* ^\s*(?:0\.0\.0\.0|127\.0\.0\.1)\s+([A-Za-z0-9._-]+)\s*$
R_HOSTS(s) ==
    LET r  == Drop(s, SpanSpace(s))
        ip == IF StartsWith(r, "0.0.0.0") THEN 7
              ELSE IF StartsWith(r, "127.0.0.1") THEN 9 ELSE 0
        a  == Drop(r, ip)
        w  == SpanSpace(a)
        b  == Drop(a, w)
        n  == SpanDom(b)
        c  == Drop(b, n)
    IN IF ip > 0 /\ w >= 1 /\ n >= 1 /\ SpanSpace(c) = Len(c)
       THEN [ok |-> TRUE, dom |-> SubSeq(b, 1, n), val |-> ""]
       ELSE NoMatch

\* ^\s*(?:\|\|)?([A-Za-z0-9._-]+\.[A-Za-z]{2,})(?:\^)?\s*$
R_DOMAIN(s) ==
    LET r == Drop(s, SpanSpace(s))
        a == IF StartsWith(r, "||") THEN Drop(r, 2) ELSE r
        n == SpanDom(a)
        t == SubSeq(a, 1, n)
        b == Drop(a, n)
        c == IF StartsWith(b, "^") THEN Drop(b, 1) ELSE b
    IN IF IsDomainToken(t) /\ SpanSpace(c) = Len(c)
       THEN [ok |-> TRUE, dom |-> t, val |-> ""]
       ELSE NoMatch

\* ^\s*\|\|(?P<dom>[A-Za-z0-9._-]+\.[A-Za-z]{2,})\^\$<modifier>=(?P<val>.+)\s*$
DnsModifier(s, key) ==
    LET r == Drop(s, SpanSpace(s))
        a == Drop(r, 2)
        n == SpanDom(a)
        t == SubSeq(a, 1, n)
        b == Drop(a, n)
        v == Drop(b, Len(key))
    IN IF StartsWith(r, "||") /\ IsDomainToken(t) /\ StartsWith(b, key) /\ Len(v) >= 1
       THEN [ok |-> TRUE, dom |-> t, val |-> v]
       ELSE NoMatch

R_DNSREWRITE(s) == DnsModifier(s, "^$dnsrewrite=")
R_DNSTYPE(s) == DnsModifier(s, "^$dnstype=")

(***************************************************************************)
(* Domain helpers (merge.py:46-100)                                        *)
(***************************************************************************)
\* The regular expressions capture ASCII only, so d.encode("idna") either
\* returns d unchanged or raises (empty or over-long label) and the except
\* branch is taken; both ways the result is the stripped token, lowercased.
idna_norm(d) == Lower(StripDots(Strip(d)))

\* mutant: the suffix test without the separating dot
_is_subdomain_of_NoDot(child, parent) ==
    LET c == StripDots(child)
        p == StripDots(parent)
    IN c = p \/ EndsWith(c, p)

_is_subdomain_of(child, parent) ==
    LET c == StripDots(child)
        p == StripDots(parent)
    IN c = p \/ EndsWith(c, "." \o p)

_split_labels(d) == SplitDot(StripDots(d))

\* mutant: only the single-label test, the suffix list forgotten
_is_public_suffix_like_SingleLabelOnly(d) == Len(_split_labels(StripDots(Lower(d)))) <= 1

_is_public_suffix_like(d) ==
    LET x == StripDots(Lower(d))
    IN IF x \in COMMON_MULTI_PSL THEN TRUE ELSE Len(_split_labels(x)) <= 1

_registrable_domain(d) ==
    LET labs  == _split_labels(Lower(d))
        n     == Len(labs)
        last2 == JoinDot(SubSeq(labs, n - 1, n))
    IN IF n < 2 THEN d
       ELSE IF last2 \in COMMON_MULTI_PSL /\ n >= 3 THEN JoinDot(SubSeq(labs, n - 2, n))
       ELSE last2

(***************************************************************************)
(* Inputs of the model                                                     *)
(***************************************************************************)
\* lines a fetched list may hold (SpecNorm)
Lines ==
    { "||ads.example.com^",
      "0.0.0.0 tracker.example.com",
      "@@||example.com^",
      "||example.com^",
      "###banner",
      "0.0.0.0 localhost",
      "co.uk",
      "||example.co.uk^",
      "||notexample.co.uk^",
      "||ads.example.com^$dnsrewrite=1.2.3.4",
      "||ads.example.com^$dnstype=~AAAA",
      "127.0.0.1  Example.COM.",
      "||example.com^$important" }

\* lines of the runs that are repeated (SpecPerm, SpecTwice)
FewLines ==
    { "||ads.example.com^",
      "0.0.0.0 example.com",
      "||ads.example.com^$dnsrewrite=1.2.3.4",
      "||ads.example.com^$dnsrewrite=5.6.7.8",
      "||b.example.co.uk^$dnstype=~AAAA",
      "! comment" }

\* lines of sources.txt (Spec)
U1 == "https://a.example/list.txt"
U2 == "https://b.example/hosts"
SrcLines == { "", "# mirrors", U1, " " \o U2 }

\* texts a fetch may return, already split into lines (Spec)
Texts ==
    { <<>>,
      <<"||ads.example.com^", "###banner">>,
      <<"0.0.0.0 tracker.example.com">>,
      <<"||example.com^">> }

\* domains and values of the aggregate states drawn for the resolver (SpecResolver)
ResolverDomains == { "example.com", "ads.example.com", "notexample.com", "example.co.uk" }
ResolverValues == { {"1.2.3.4"} }

SeqsUpTo(S, n) == UNION { [1..k -> S] : k \in 0..n }

(***************************************************************************)
(* State                                                                   *)
(***************************************************************************)
VARIABLES
    pc,              \* position of main()
    src_exists,      \* os.path.exists(SRC_FILE)
    src_file,        \* the lines of sources.txt
    sources,         \* main: sources
    responses,       \* what the network did for each source fetched so far
    lines,           \* main: lines, the all_lines of normalize_and_dedupe
    idx,             \* number of lines the classification loop has consumed
    allow_domains,
    block_domains,
    dnsrewrite_map,  \* domain -> set of values
    dnstype_map,     \* domain -> set of values
    stats,           \* the counters of normalize_and_dedupe
    block_rules,     \* returned rule lines
    domains,         \* returned domain list
    files,           \* file name -> content, of the files written under dist/
    now,             \* time.time() read by header(), in clock ticks
    exit_code,       \* -1 while running
    run,             \* 1 for the first run, 2 for the repeated one
    prev             \* what the first run produced (SpecPerm, SpecTwice);
                     \* the aggregate as drawn (SpecResolver)

vars == << pc, src_exists, src_file, sources, responses, lines, idx,
           allow_domains, block_domains, dnsrewrite_map, dnstype_map, stats,
           block_rules, domains, files, now, exit_code, run, prev >>

aggregate == << allow_domains, block_domains, dnsrewrite_map, dnstype_map >>
mainVars == << src_exists, src_file, sources, responses >>
twiceVars == << run, prev >>

EmptyMap == [d \in {} |-> {}]
NoFiles == [n \in {} |-> ""]
NoAggregate == << {}, {}, EmptyMap, EmptyMap >>
NoPrev ==
    [ lines |-> <<>>, aggregate |-> NoAggregate, block_rules |-> <<>>,
      domains |-> <<>>, files |-> NoFiles, now |-> 0 ]

ZeroStats ==
    [ total_before |-> 0, ignored |-> 0, hosts |-> 0, plain |-> 0,
      dnsrewrite |-> 0, dnstype |-> 0, removed_by_parent |-> 0,
      total_after |-> 0, dedup_removed |-> 0, allow_count |-> 0,
      block_domains_count |-> 0 ]

(***************************************************************************)
(* normalize_and_dedupe: the classification loop (merge.py:114-172)        *)
(***************************************************************************)
Ignored == [counter |-> "ignored", target |-> "none", dom |-> "", val |-> ""]
\* mutant: an accepted line counted as ignored
Accepted_CountedIgnored(c, t, d, v) == [counter |-> "ignored", target |-> t, dom |-> d, val |-> v]
Accepted(c, t, d, v) == [counter |-> c, target |-> t, dom |-> d, val |-> v]

\* The body of the loop for one raw line: the counter it increments and the
\* collection it adds to.  (No line of the model holds a byte-order mark, so
\* replace("\ufeff", "") is left out.)
Classify(raw, keep_idna) ==
    LET s       == Strip(raw)
        norm(t) == IF keep_idna THEN idna_norm(t) ELSE Lower(t)
        h       == R_HOSTS(s)
        m       == R_DOMAIN(s)
        rw      == R_DNSREWRITE(s)
        ty      == R_DNSTYPE(s)
    IN IF R_BLANK(s) \/ R_COMMENT(s) \/ R_COSMETIC(s) THEN Ignored
       ELSE IF h.ok THEN
            IF ~_is_public_suffix_like(norm(h.dom))
            THEN Accepted("hosts", "block", norm(h.dom), "")
            ELSE Ignored
       ELSE IF m.ok /\ ~Contains(s, "$") /\ ~(StartsWith(s, "/") /\ EndsWith(s, "/")) THEN
            IF _is_public_suffix_like(norm(m.dom)) THEN Ignored
            ELSE IF StartsWith(s, "@@") THEN Accepted("plain", "allow", norm(m.dom), "")
            ELSE Accepted("plain", "block", norm(m.dom), "")
       ELSE IF rw.ok THEN
            IF _is_public_suffix_like(norm(rw.dom)) THEN Ignored
            ELSE Accepted("dnsrewrite", "rewrite", norm(rw.dom), Strip(rw.val))
       ELSE IF ty.ok THEN
            IF _is_public_suffix_like(norm(ty.dom)) THEN Ignored
            ELSE Accepted("dnstype", "type", norm(ty.dom), Strip(ty.val))
       ELSE Ignored

\* Classify tabulated over the lines of the model
ClassOf ==
    [l \in Lines \cup FewLines \cup UNION { Range(t) : t \in Texts } |->
        Classify(l, KEEP_IDNA)]

\* mutant: m[d] = {v}, the last value replacing the earlier ones
MapAdd_Overwrite(m, d, v) == [k \in DOMAIN m \cup {d} |-> IF k = d THEN {v} ELSE m[k]]

\* m.setdefault(d, set()).add(v)
MapAdd(m, d, v) ==
    IF d \in DOMAIN m THEN [m EXCEPT ![d] = @ \cup {v}]
    ELSE [k \in DOMAIN m \cup {d} |-> IF k = d THEN {v} ELSE m[k]]

ClassifyLine ==
    /\ pc = "loop"
    /\ idx < Len(lines)
    /\ LET r == ClassOf[lines[idx + 1]]
       IN /\ stats' = [stats EXCEPT !.total_before = @ + 1, ![r.counter] = @ + 1]
          /\ allow_domains' = IF r.target = "allow" THEN allow_domains \cup {r.dom}
                              ELSE allow_domains
          /\ block_domains' = IF r.target \in {"block", "rewrite", "type"}
                              THEN block_domains \cup {r.dom} ELSE block_domains
          /\ dnsrewrite_map' = IF r.target = "rewrite"
                               THEN MapAdd(dnsrewrite_map, r.dom, r.val) ELSE dnsrewrite_map
          /\ dnstype_map' = IF r.target = "type"
                            THEN MapAdd(dnstype_map, r.dom, r.val) ELSE dnstype_map
    /\ idx' = idx + 1
    /\ UNCHANGED << pc, lines, block_rules, domains, files, now, exit_code >>
    /\ UNCHANGED << mainVars, twiceVars >>

(***************************************************************************)
(* normalize_and_dedupe: whitelist priority (merge.py:174-190)             *)
(***************************************************************************)
allowed(d, allow) == \E a \in Range(sorted(allow)) : _is_subdomain_of(d, a)

\* dict with the keys for which allowed() holds popped
PopAllowed(m, allow) == [k \in { d \in DOMAIN m : ~allowed(d, allow) } |-> m[k]]

WhitelistStep ==
    /\ pc = "loop"
    /\ idx = Len(lines)
    /\ IF allow_domains # {}
       THEN /\ block_domains' = { d \in block_domains : ~allowed(d, allow_domains) }
            /\ dnsrewrite_map' = PopAllowed(dnsrewrite_map, allow_domains)
            /\ dnstype_map' = PopAllowed(dnstype_map, allow_domains)
       ELSE UNCHANGED << block_domains, dnsrewrite_map, dnstype_map >>
    /\ pc' = "collapse"
    /\ UNCHANGED << allow_domains, lines, idx, stats, block_rules, domains, files, now,
                    exit_code >>
    /\ UNCHANGED << mainVars, twiceVars >>

(***************************************************************************)
(* normalize_and_dedupe: parent collapse (merge.py:192-214)                *)
(***************************************************************************)
\* by_reg: registrable domain -> its members
by_reg(blocks) ==
    [rd \in { _registrable_domain(d) : d \in blocks } |->
        { d \in blocks : _registrable_domain(d) = rd }]

\* mutant: the longest names sorted first
KeyLess_LongestFirst(x, y) ==
    LET nx == Len(_split_labels(x))
        ny == Len(_split_labels(y))
    IN nx > ny \/ (nx = ny /\ StrLess(x, y))

\* the sort key (len(_split_labels(x)), x)
KeyLess(x, y) ==
    LET nx == Len(_split_labels(x))
        ny == Len(_split_labels(y))
    IN nx < ny \/ (nx = ny /\ StrLess(x, y))

RECURSIVE members_sorted(_)
members_sorted(members) ==
    IF members = {} THEN <<>>
    ELSE LET m == CHOOSE x \in members : \A y \in members \ {x} : KeyLess(x, y)
         IN <<m>> \o members_sorted(members \ {m})

RECURSIVE KeepLoop(_, _)
\* the loop over members_sorted that builds kept
KeepLoop(ms, kept) ==
    IF ms = <<>> THEN kept
    ELSE LET d == Head(ms)
         IN KeepLoop(Tail(ms),
                     IF \E p \in Range(kept) : _is_subdomain_of(d, p)
                     THEN kept ELSE Append(kept, d))

kept_of(members) == KeepLoop(members_sorted(members), <<>>)

new_blocks(blocks) == UNION { Range(kept_of(by_reg(blocks)[rd])) : rd \in DOMAIN by_reg(blocks) }

RECURSIVE RemovedIn(_, _)
\* the sum of len(members_sorted) - len(kept) over the groups rds
RemovedIn(groups, rds) ==
    IF rds = {} THEN 0
    ELSE LET rd == CHOOSE x \in rds : TRUE
         IN (Cardinality(groups[rd]) - Len(kept_of(groups[rd]))) + RemovedIn(groups, rds \ {rd})

ParentCollapse ==
    /\ pc = "collapse"
    /\ IF ENABLE_PARENT_COLLAPSE /\ block_domains # {}
       THEN /\ block_domains' = new_blocks(block_domains)
            /\ stats' = [stats EXCEPT !.removed_by_parent =
                            RemovedIn(by_reg(block_domains), DOMAIN by_reg(block_domains))]
       ELSE UNCHANGED << block_domains, stats >>
    /\ pc' = "build"
    /\ UNCHANGED << allow_domains, dnsrewrite_map, dnstype_map, lines, idx, block_rules,
                    domains, files, now, exit_code >>
    /\ UNCHANGED << mainVars, twiceVars >>

(***************************************************************************)
(* normalize_and_dedupe: the returned lists (merge.py:216-242)             *)
(***************************************************************************)
RECURSIVE ModifierRules(_, _, _)
\* "||d^<modifier>v" for the domains ds in order, each with its values sorted
ModifierRules(m, ds, modifier) ==
    IF ds = <<>> THEN <<>>
    ELSE LET d  == Head(ds)
             vs == sorted(m[d])
         IN [i \in 1..Len(vs) |-> "||" \o d \o modifier \o vs[i]]
            \o ModifierRules(m, Tail(ds), modifier)

BlockRules(blocks, rw, ty) ==
    LET bs == sorted(blocks)
    IN [i \in 1..Len(bs) |-> "||" \o bs[i] \o "^"]
       \o ModifierRules(rw, sorted(DOMAIN rw), "^$dnsrewrite=")
       \o ModifierRules(ty, sorted(DOMAIN ty), "^$dnstype=")

DomainList(blocks, rw, ty) == sorted(blocks \cup DOMAIN rw \cup DOMAIN ty)

Max(a, b) == IF a >= b THEN a ELSE b

BuildOutput ==
    /\ pc = "build"
    /\ block_rules' = BlockRules(block_domains, dnsrewrite_map, dnstype_map)
    /\ domains' = DomainList(block_domains, dnsrewrite_map, dnstype_map)
    /\ stats' = [stats EXCEPT
                    !.total_after = Len(block_rules'),
                    !.dedup_removed = Max(stats.total_before - Len(block_rules'), 0),
                    !.allow_count = Cardinality(allow_domains),
                    !.block_domains_count = Cardinality(block_domains)]
    /\ pc' = "write"
    /\ UNCHANGED << aggregate, lines, idx, files, now, exit_code >>
    /\ UNCHANGED << mainVars, twiceVars >>

(***************************************************************************)
(* header and write_outputs (merge.py:61-74, 245-258)                      *)
(***************************************************************************)
RECURSIVE JoinLines(_)
\* "\n".join(h)
JoinLines(h) ==
    IF Len(h) = 0 THEN ""
    ELSE IF Len(h) = 1 THEN h[1]
    ELSE h[1] \o "\n" \o JoinLines(Tail(h))

RECURSIVE EachLine(_, _)
\* what the loop "for r in rows: f.write(prefix + r + "\n")" writes
EachLine(prefix, rows) ==
    IF rows = <<>> THEN ""
    ELSE prefix \o Head(rows) \o "\n" \o EachLine(prefix, Tail(rows))

\* mutant: a format that keeps the fraction of the second
strftime_WithFraction(t) ==
    "1970-01-01 00:00:0" \o ToString(t \div 2) \o "." \o ToString(5 * (t % 2)) \o " UTC"

\* time.strftime("%Y-%m-%d %H:%M:%S UTC", time.gmtime(t)): the clock counts
\* half seconds from the epoch and the format keeps whole seconds
strftime(t) == "1970-01-01 00:00:0" \o ToString(t \div 2) \o " UTC"

header(title, srcs, t) ==
    JoinLines(
        << "! " \o title,
           "! Generated at: " \o strftime(t),
           "! Sources:" >>
        \o [i \in 1..Len(srcs) |-> "!  - " \o srcs[i]]
        \o << "! Notes:",
              "! - AGH-only DNS rules retained (||, @@||, $dnsrewrite, $dnstype, hosts).",
              "! - Cosmetic rules (##, #@#) and browser-only modifiers are removed.",
              "! - Whitelist (@@) wins over block/dnsrewrite/dnstype for domain & subdomains.",
              "" >>)

AdblockFile(rules, srcs, t) ==
    header("Unified Adblock list for AdGuard Home (DNS-only)", srcs, t) \o EachLine("", rules)
HostsFile(ds) == "# 0.0.0.0 hosts merged (AGH-compatible)\n" \o EachLine("0.0.0.0 ", ds)
DomainsFile(ds) == EachLine("", ds)

OutputNames == { "merged_adblock.txt", "merged_hosts.txt", "merged_domains.txt" }

WrittenFiles(rules, ds, srcs, t) ==
    [n \in OutputNames |->
        IF n = "merged_adblock.txt" THEN AdblockFile(rules, srcs, t)
        ELSE IF n = "merged_hosts.txt" THEN HostsFile(ds)
        ELSE DomainsFile(ds)]

WriteOutputs ==
    /\ pc = "write"
    /\ \E t \in 0..MaxClock :
          /\ now' = t
          /\ files' = WrittenFiles(block_rules, domains, sources, t)
    /\ pc' = "report"
    /\ UNCHANGED << aggregate, lines, idx, stats, block_rules, domains, exit_code >>
    /\ UNCHANGED << mainVars, twiceVars >>

(***************************************************************************)
(* main (merge.py:261-312)                                                 *)
(***************************************************************************)
\* if not os.path.exists(SRC_FILE): sys.exit(1)
CheckSrcFile ==
    /\ pc = "start"
    /\ IF src_exists
       THEN pc' = "read" /\ UNCHANGED exit_code
       ELSE pc' = "exit" /\ exit_code' = 1
    /\ UNCHANGED << aggregate, lines, idx, stats, block_rules, domains, files, now >>
    /\ UNCHANGED << mainVars, twiceVars >>

RECURSIVE ParseSources(_)
\* the stripped lines of sources.txt that are neither empty nor comments
ParseSources(f) ==
    IF f = <<>> THEN <<>>
    ELSE LET u == Strip(Head(f))
         IN (IF u # "" /\ ~StartsWith(u, "#") THEN <<u>> ELSE <<>>) \o ParseSources(Tail(f))

\* read sources.txt; if not sources: sys.exit(1)
ReadSources ==
    /\ pc = "read"
    /\ sources' = ParseSources(src_file)
    /\ IF sources' = <<>>
       THEN pc' = "exit" /\ exit_code' = 1
       ELSE pc' = "fetch" /\ UNCHANGED exit_code
    /\ UNCHANGED << src_exists, src_file, responses >>
    /\ UNCHANGED << aggregate, lines, idx, stats, block_rules, domains, files, now >>
    /\ UNCHANGED twiceVars

\* fetch(url) returns: lines.extend(txt.splitlines())
FetchOk ==
    /\ pc = "fetch"
    /\ Len(responses) < Len(sources)
    /\ \E txt \in Texts :
          /\ lines' = lines \o txt
          /\ responses' = Append(responses, [ok |-> TRUE, txt |-> txt])
    /\ UNCHANGED << pc, src_exists, src_file, sources >>
    /\ UNCHANGED << aggregate, idx, stats, block_rules, domains, files, now, exit_code >>
    /\ UNCHANGED twiceVars

\* mutant: a failed fetch ends the run
FetchFail_Aborts ==
    /\ pc = "fetch"
    /\ Len(responses) < Len(sources)
    /\ responses' = Append(responses, [ok |-> FALSE, txt |-> <<>>])
    /\ pc' = "exit"
    /\ exit_code' = 1
    /\ UNCHANGED << src_exists, src_file, sources >>
    /\ UNCHANGED << aggregate, lines, idx, stats, block_rules, domains, files, now >>
    /\ UNCHANGED twiceVars

\* fetch(url) raises: the except branch prints FAIL and the loop goes on
FetchFail ==
    /\ pc = "fetch"
    /\ Len(responses) < Len(sources)
    /\ responses' = Append(responses, [ok |-> FALSE, txt |-> <<>>])
    /\ UNCHANGED << pc, src_exists, src_file, sources >>
    /\ UNCHANGED << aggregate, lines, idx, stats, block_rules, domains, files, now,
                    exit_code >>
    /\ UNCHANGED twiceVars

\* the call normalize_and_dedupe(lines): its locals are initialised
Normalize ==
    /\ pc = "fetch"
    /\ Len(responses) = Len(sources)
    /\ pc' = "loop"
    /\ idx' = 0
    /\ allow_domains' = {}
    /\ block_domains' = {}
    /\ dnsrewrite_map' = EmptyMap
    /\ dnstype_map' = EmptyMap
    /\ stats' = ZeroStats
    /\ UNCHANGED << lines, block_rules, domains, files, now, exit_code >>
    /\ UNCHANGED << mainVars, twiceVars >>

\* the checksums and statistics are printed and main returns
Report ==
    /\ pc = "report"
    /\ pc' = "done"
    /\ exit_code' = 0
    /\ UNCHANGED << aggregate, lines, idx, stats, block_rules, domains, files, now >>
    /\ UNCHANGED << mainVars, twiceVars >>

(***************************************************************************)
(* Specifications                                                          *)
(***************************************************************************)
NothingProduced ==
    /\ idx = 0
    /\ stats = ZeroStats
    /\ block_rules = <<>>
    /\ domains = <<>>
    /\ files = NoFiles
    /\ now = 0
    /\ exit_code = -1
    /\ run = 1

Fresh ==
    /\ allow_domains = {}
    /\ block_domains = {}
    /\ dnsrewrite_map = EmptyMap
    /\ dnstype_map = EmptyMap
    /\ NothingProduced

\* main() from its first statement
Init ==
    /\ pc = "start"
    /\ src_exists \in BOOLEAN
    /\ src_file \in (IF src_exists THEN SeqsUpTo(SrcLines, MaxSources) ELSE { <<>> })
    /\ sources = <<>>
    /\ responses = <<>>
    /\ lines = <<>>
    /\ Fresh
    /\ prev = NoPrev

Next ==
    \/ CheckSrcFile
    \/ ReadSources
    \/ FetchOk
    \/ FetchFail
    \/ Normalize
    \/ ClassifyLine
    \/ WhitelistStep
    \/ ParentCollapse
    \/ BuildOutput
    \/ WriteOutputs
    \/ Report

Spec == Init /\ [][Next]_vars

\* main() at the call of normalize_and_dedupe, its one source fetched; SpecNorm
\* follows the call until it returns
AtCall(inputs) ==
    /\ pc = "loop"
    /\ src_exists = TRUE
    /\ src_file = << U1 >>
    /\ sources = << U1 >>
    /\ lines \in inputs
    /\ responses = << [ok |-> TRUE, txt |-> lines] >>
    /\ Fresh
    /\ prev = NoPrev

InitNorm == AtCall(SeqsUpTo(Lines, MaxLines))

NextNorm ==
    \/ ClassifyLine
    \/ WhitelistStep
    \/ ParentCollapse
    \/ BuildOutput

SpecNorm == InitNorm /\ [][NextNorm]_vars

(***************************************************************************)
(* The same input handled a second time                                    *)
(***************************************************************************)
Produced ==
    [ lines |-> lines, aggregate |-> aggregate, block_rules |-> block_rules,
      domains |-> domains, files |-> files, now |-> now ]

Reordered(l) == { [i \in 1..Len(l) |-> l[p[i]]] : p \in Permutations(1..Len(l)) }

\* normalize_and_dedupe has returned and is called again with the lines in
\* another order
RunPermuted ==
    /\ pc = "write"
    /\ run = 1
    /\ prev' = Produced
    /\ run' = 2
    /\ lines' \in Reordered(lines)
    /\ responses' = << [ok |-> TRUE, txt |-> lines'] >>
    /\ pc' = "loop"
    /\ idx' = 0
    /\ allow_domains' = {}
    /\ block_domains' = {}
    /\ dnsrewrite_map' = EmptyMap
    /\ dnstype_map' = EmptyMap
    /\ stats' = ZeroStats
    /\ block_rules' = <<>>
    /\ domains' = <<>>
    /\ UNCHANGED << src_exists, src_file, sources, files, now, exit_code >>

InitPerm == AtCall(SeqsUpTo(FewLines, MaxLines))

NextPerm ==
    \/ ClassifyLine
    \/ WhitelistStep
    \/ ParentCollapse
    \/ BuildOutput
    \/ RunPermuted

SpecPerm == InitPerm /\ [][NextPerm]_vars

\* main has finished and the pipeline runs again on the same lines and
\* sources; dist/ still holds the files of the first run
RunAgain ==
    /\ pc = "done"
    /\ run = 1
    /\ prev' = Produced
    /\ run' = 2
    /\ pc' = "loop"
    /\ idx' = 0
    /\ allow_domains' = {}
    /\ block_domains' = {}
    /\ dnsrewrite_map' = EmptyMap
    /\ dnstype_map' = EmptyMap
    /\ stats' = ZeroStats
    /\ block_rules' = <<>>
    /\ domains' = <<>>
    /\ exit_code' = -1
    /\ UNCHANGED << mainVars, lines, files, now >>

InitTwice == AtCall(SeqsUpTo(FewLines, MaxLines))

NextTwice ==
    \/ ClassifyLine
    \/ WhitelistStep
    \/ ParentCollapse
    \/ BuildOutput
    \/ WriteOutputs
    \/ Report
    \/ RunAgain

SpecTwice == InitTwice /\ [][NextTwice]_vars

(***************************************************************************)
(* The conflict resolver on an aggregate drawn from bounded sets: the      *)
(* state at the end of the classification loop, the allow set included     *)
(***************************************************************************)
MapsOver(keys) == UNION { [ks -> ResolverValues] : ks \in SUBSET keys }

InitResolver ==
    /\ pc = "loop"
    /\ src_exists = TRUE
    /\ src_file = << U1 >>
    /\ sources = << U1 >>
    /\ lines = <<>>
    /\ responses = << [ok |-> TRUE, txt |-> <<>>] >>
    /\ NothingProduced
    /\ allow_domains \in SUBSET ResolverDomains
    /\ block_domains \in SUBSET ResolverDomains
    /\ dnsrewrite_map \in MapsOver(block_domains)
    /\ dnstype_map \in MapsOver(block_domains)
    /\ prev = [NoPrev EXCEPT !.aggregate = aggregate]

NextResolver ==
    \/ WhitelistStep
    \/ ParentCollapse
    \/ BuildOutput

SpecResolver == InitResolver /\ [][NextResolver]_vars

(***************************************************************************)
(* Vocabulary of the properties, stated on labels rather than on text      *)
(***************************************************************************)
IsSuffixSeq(p, d) == Len(p) <= Len(d) /\ SubSeq(d, Len(d) - Len(p) + 1, Len(d)) = p
\* d is a, or a subdomain of a
Covers(a, d) == IsSuffixSeq(SplitDot(a), SplitDot(d))
StrictAncestor(p, d) == p # d /\ Covers(p, d)
\* a single label, or a listed multi-label suffix
Generic(d) == Len(SplitDot(d)) = 1 \/ d \in COMMON_MULTI_PSL

NamedDomains ==
    { "example.com", "ads.example.com", "tracker.example.com", "example.co.uk",
      "notexample.co.uk", "localhost", "co.uk" }
BlockLine(d) == "||" \o d \o "^"
HostsLine(d) == "0.0.0.0 " \o d
AllowLine(d) == "@@||" \o d \o "^"
\* the rule line names domain d as its target
RuleNames(rule, d) == StartsWith(rule, "||" \o d \o "^")
\* lines whose domain is generic
GenericLines ==
    UNION { { g, BlockLine(g), HostsLine(g), AllowLine(g) } : g \in { d \in NamedDomains : Generic(d) } }

Returned == pc \in {"write", "report", "done"}
LoopStep == pc = "loop" /\ idx' = idx + 1
CategoryCounters == {"ignored", "hosts", "plain", "dnsrewrite", "dnstype"}
IsSortedStr(q) == \A i, j \in 1..Len(q) : i < j => StrLess(q[i], q[j])

RECURSIVE OkLines(_)
\* the lines of the successful responses, in order
OkLines(rs) ==
    IF rs = <<>> THEN <<>>
    ELSE (IF Head(rs).ok THEN Head(rs).txt ELSE <<>>) \o OkLines(Tail(rs))

(***************************************************************************)
(* C1 (SpecNorm), as claimed: when the input holds an allow line @@||a^    *)
(* with a not generic, no block or hosts entry whose domain is a or a      *)
(* subdomain of a appears in the returned rule lines or domain list; the   *)
(* three-line scenario returns empty lists.  The code violates it: the     *)
(* allow line never matches R_DOMAIN.                                      *)
(***************************************************************************)
C1_EndToEndWhitelist ==
    Returned =>
        /\ \A a \in NamedDomains, d \in NamedDomains :
              ( /\ ~Generic(a)
                /\ AllowLine(a) \in Range(lines)
                /\ BlockLine(d) \in Range(lines) \/ HostsLine(d) \in Range(lines)
                /\ Covers(a, d) )
              => /\ d \notin Range(domains)
                 /\ \A i \in 1..Len(block_rules) : ~RuleNames(block_rules[i], d)
        /\ lines = << "||ads.example.com^", "0.0.0.0 tracker.example.com", "@@||example.com^" >>
              => block_rules = <<>> /\ domains = <<>>

(***************************************************************************)
(* C2 (SpecResolver): after the whitelist step a domain covered by an      *)
(* allow-domain is in neither the block set nor the keys of the rewrite    *)
(* and type maps, and a domain no allow-domain covers is left in them      *)
(* unchanged, values included.                                             *)
(***************************************************************************)
C2_WhitelistDominance ==
    pc = "collapse" =>
        LET allow0 == prev.aggregate[1]
            block0 == prev.aggregate[2]
            rw0    == prev.aggregate[3]
            ty0    == prev.aggregate[4]
        IN /\ allow_domains = allow0
           /\ block_domains \subseteq block0
           /\ DOMAIN dnsrewrite_map \subseteq DOMAIN rw0
           /\ DOMAIN dnstype_map \subseteq DOMAIN ty0
           /\ \A d \in block0 \cup DOMAIN rw0 \cup DOMAIN ty0 :
                 IF \E a \in allow0 : Covers(a, d)
                 THEN /\ d \notin block_domains
                      /\ d \notin DOMAIN dnsrewrite_map
                      /\ d \notin DOMAIN dnstype_map
                 ELSE /\ d \in block0 => d \in block_domains
                      /\ d \in DOMAIN rw0 => d \in DOMAIN dnsrewrite_map /\ dnsrewrite_map[d] = rw0[d]
                      /\ d \in DOMAIN ty0 => d \in DOMAIN dnstype_map /\ dnstype_map[d] = ty0[d]

\* the allow-domain example.com has removed ads.example.com and its rewrite
\* and has left notexample.com
C2_Witness ==
    /\ pc = "collapse"
    /\ prev.aggregate[1] = {"example.com"}
    /\ {"ads.example.com", "notexample.com"} \subseteq prev.aggregate[2]
    /\ "ads.example.com" \in DOMAIN prev.aggregate[3]
    /\ "ads.example.com" \notin block_domains
    /\ "ads.example.com" \notin DOMAIN dnsrewrite_map
    /\ "notexample.com" \in block_domains

(***************************************************************************)
(* C3 (SpecNorm): the parent collapse drops a block domain exactly when    *)
(* another block domain of the same registration group is its strict       *)
(* ancestor, so no two domains of the result are nested, domains of        *)
(* different groups never remove one another, and removed_by_parent        *)
(* counts the dropped domains.                                             *)
(***************************************************************************)
C3_CollapseStep ==
    (pc = "collapse" /\ pc' = "build") =>
        LET dropped(d) ==
                \E p \in block_domains :
                    /\ _registrable_domain(p) = _registrable_domain(d)
                    /\ StrictAncestor(p, d)
        IN /\ block_domains' = { d \in block_domains : ~dropped(d) }
           /\ \A x, y \in block_domains' : ~StrictAncestor(x, y)
           /\ \A d \in block_domains \ block_domains' :
                 \A p \in block_domains :
                    _registrable_domain(p) # _registrable_domain(d) => ~StrictAncestor(p, d)
           /\ {"example.co.uk", "notexample.co.uk"} \subseteq block_domains
                 => {"example.co.uk", "notexample.co.uk"} \subseteq block_domains'
           /\ stats'.removed_by_parent = Cardinality(block_domains \ block_domains')

C3_ParentCollapse == [][C3_CollapseStep]_vars

\* example.com has removed ads.example.com while the two co.uk names stay
C3_Witness ==
    /\ pc = "build"
    /\ Range(lines) = { "||ads.example.com^", "||example.com^", "||notexample.co.uk^" }
    /\ block_domains = { "example.com", "notexample.co.uk" }
    /\ stats.removed_by_parent = 1

(***************************************************************************)
(* C4 (SpecNorm), as claimed: in the returned state no key of the rewrite  *)
(* or type map, and no entry of the domain list, is a strict subdomain of  *)
(* a final block domain.  The code violates it: the collapse prunes the    *)
(* block set only.                                                         *)
(***************************************************************************)
C4_MapsPrunedOfSubsumed ==
    Returned =>
        /\ \A k \in DOMAIN dnsrewrite_map \cup DOMAIN dnstype_map :
              \A b \in block_domains : ~StrictAncestor(b, k)
        /\ \A i \in 1..Len(domains) :
              \A b \in block_domains : ~StrictAncestor(b, domains[i])
        /\ \A i \in 1..Len(block_rules) :
              \A b \in block_domains, k \in NamedDomains :
                 StrictAncestor(b, k) => ~RuleNames(block_rules[i], k)

(***************************************************************************)
(* C5 (SpecPerm): called again with the same lines in any other order,     *)
(* normalize_and_dedupe returns the same rule lines and the same domain    *)
(* list, from the same final sets and maps; the domain list is sorted.     *)
(***************************************************************************)
C5_OrderIndependence ==
    pc = "write" =>
        /\ IsSortedStr(domains)
        /\ run = 2 =>
              /\ block_rules = prev.block_rules
              /\ domains = prev.domains
              /\ aggregate = prev.aggregate

\* the second call got the lines in another order, two values of one
\* rewrite among them
C5_Witness ==
    /\ pc = "write"
    /\ run = 2
    /\ lines # prev.lines
    /\ lines[1] = "||ads.example.com^$dnsrewrite=5.6.7.8"
    /\ prev.lines[1] = "||ads.example.com^$dnsrewrite=1.2.3.4"
    /\ Len(block_rules) = 3

(***************************************************************************)
(* C6 (SpecTwice), as claimed: the second run on the same lines and        *)
(* sources leaves all three files byte-identical to those of the first,    *)
(* whatever the times of the two runs.                                     *)
(***************************************************************************)
C6_ByteIdentical == (run = 2 /\ pc = "done") => files = prev.files

(***************************************************************************)
(* C6 amended (SpecTwice): the second run leaves merged_hosts.txt and      *)
(* merged_domains.txt byte-identical, and merged_adblock.txt identical     *)
(* but for the time in its "Generated at" header line: the file is what    *)
(* the first run's rules give at the second run's time, and is             *)
(* byte-identical when header() reads the same second in both runs.        *)
(***************************************************************************)
C6_IdenticalButForTime ==
    (run = 2 /\ pc = "done") =>
        /\ files["merged_hosts.txt"] = prev.files["merged_hosts.txt"]
        /\ files["merged_domains.txt"] = prev.files["merged_domains.txt"]
        /\ files["merged_adblock.txt"] = AdblockFile(prev.block_rules, sources, now)
        /\ (now \div 2 = prev.now \div 2) => files = prev.files

\* two runs in one second, at different instants, of a list that gives a rule
C6_Witness ==
    /\ run = 2
    /\ pc = "done"
    /\ now # prev.now
    /\ now \div 2 = prev.now \div 2
    /\ Len(block_rules) >= 1
    /\ files = prev.files

(***************************************************************************)
(* C7 (SpecNorm): no single-label domain and no member of                  *)
(* COMMON_MULTI_PSL is ever in the allow set, the block set or the keys    *)
(* of the rewrite and type maps, none is the target of a returned rule     *)
(* line or an entry of the returned domain list, and a line whose domain   *)
(* is generic increments the ignored counter and no category counter.      *)
(***************************************************************************)
C7_NoGenericTarget ==
    /\ \A d \in allow_domains \cup block_domains \cup DOMAIN dnsrewrite_map \cup DOMAIN dnstype_map :
          ~Generic(d)
    /\ \A i \in 1..Len(domains) : ~Generic(domains[i])
    /\ \A i \in 1..Len(block_rules) :
          \A g \in NamedDomains : Generic(g) => ~RuleNames(block_rules[i], g)

C7_GenericLineStep ==
    (LoopStep /\ lines[idx + 1] \in GenericLines) =>
        /\ stats'.ignored = stats.ignored + 1
        /\ \A c \in CategoryCounters \ {"ignored"} : stats'[c] = stats[c]

C7_SuffixRejection == []C7_NoGenericTarget /\ [][C7_GenericLineStep]_vars

\* localhost and co.uk were both read and ignored, beside an accepted line
C7_Witness ==
    /\ pc = "write"
    /\ Range(lines) = { "0.0.0.0 localhost", "co.uk", "||example.co.uk^" }
    /\ stats.ignored = 2
    /\ domains = << "example.co.uk" >>

(***************************************************************************)
(* C8 (Spec): with a source list that is present and not empty, main       *)
(* never exits nonzero whichever fetches fail: the failed sources are      *)
(* skipped, normalize_and_dedupe runs on the lines of the successful ones  *)
(* in source order, all three files are written and the exit is 0; the     *)
(* exit is nonzero only for a missing or empty source list, with no file   *)
(* written.  Until main has returned or exited a next step is always       *)
(* possible (the collapse step has no guard but its position).             *)
(***************************************************************************)
C8_FailedFetchNeverAborts ==
    /\ exit_code = 1 =>
          /\ ~src_exists \/ ParseSources(src_file) = <<>>
          /\ files = NoFiles
    /\ (src_exists /\ ParseSources(src_file) # <<>>) => exit_code # 1
    /\ pc \in {"loop", "collapse", "build", "write", "report", "done"} =>
          /\ Len(responses) = Len(sources)
          /\ lines = OkLines(responses)
    /\ pc \in {"report", "done"} =>
          /\ DOMAIN files = OutputNames
          /\ stats.total_before = Len(lines)
          /\ files["merged_domains.txt"] = DomainsFile(domains)
    /\ pc = "done" => exit_code = 0
    /\ exit_code = 0 => pc = "done"
    /\ \/ pc \in {"done", "exit"}
       \/ pc = "collapse"
       \/ ENABLED ( CheckSrcFile \/ ReadSources \/ FetchOk \/ FetchFail \/ Normalize
                    \/ ClassifyLine \/ WhitelistStep \/ BuildOutput \/ WriteOutputs
                    \/ Report )

\* both fetches failed and the run still wrote its files and returned
C8_Witness ==
    /\ pc = "done"
    /\ exit_code = 0
    /\ Len(sources) = 2
    /\ \A i \in 1..Len(responses) : ~responses[i].ok
    /\ DOMAIN files = OutputNames

(***************************************************************************)
(* C9 (SpecNorm), as claimed: the step that reads @@||a^, a not generic,   *)
(* adds a to the allow set and not to the block set and increments the     *)
(* plain counter, not the ignored one; the step that reads ||a^ adds a to  *)
(* the block set.  The code violates the first part.                       *)
(***************************************************************************)
C9_AllowStep ==
    LoopStep =>
        \A a \in { d \in NamedDomains : ~Generic(d) } :
            /\ lines[idx + 1] = AllowLine(a) =>
                  /\ allow_domains' = allow_domains \cup {a}
                  /\ block_domains' = block_domains
                  /\ stats'.plain = stats.plain + 1
                  /\ stats'.ignored = stats.ignored
            /\ lines[idx + 1] = BlockLine(a) =>
                  /\ block_domains' = block_domains \cup {a}
                  /\ allow_domains' = allow_domains
                  /\ stats'.plain = stats.plain + 1
                  /\ stats'.ignored = stats.ignored

C9_AllowClassified == [][C9_AllowStep]_vars

(***************************************************************************)
(* C10 (SpecNorm): each line read increments total_before and exactly one  *)
(* of ignored, hosts, plain, dnsrewrite, dnstype, so total_before is       *)
(* their sum and, after the loop, the number of lines; a line counted as   *)
(* ignored (###banner among them) changes none of the four collections,    *)
(* and a list of ignored lines only returns empty lists.                   *)
(***************************************************************************)
C10_Step ==
    LoopStep =>
        /\ stats'.total_before = stats.total_before + 1
        /\ \E c \in CategoryCounters :
              /\ stats'[c] = stats[c] + 1
              /\ \A o \in CategoryCounters \ {c} : stats'[o] = stats[o]
        /\ stats'.ignored = stats.ignored + 1 => aggregate' = aggregate
        /\ lines[idx + 1] \in {"###banner", "||example.com^$important"} =>
              stats'.ignored = stats.ignored + 1

C10_Sum ==
    /\ stats.total_before =
          stats.ignored + stats.hosts + stats.plain + stats.dnsrewrite + stats.dnstype
    /\ stats.total_before = idx
    /\ pc # "loop" => stats.total_before = Len(lines)
    /\ (Returned /\ stats.ignored = Len(lines)) => block_rules = <<>> /\ domains = <<>>

C10_LineAccounting == []C10_Sum /\ [][C10_Step]_vars

\* a banner, a hosts line and a plain rule were read: one counter each
C10_Witness ==
    /\ pc = "write"
    /\ lines = << "###banner", "0.0.0.0 tracker.example.com", "||example.co.uk^" >>
    /\ stats.ignored = 1
    /\ stats.hosts = 1
    /\ stats.plain = 1
    /\ Len(block_rules) = 2

====
